---- MODULE Spec2Model ----
(***************************************************************************)
(* Model of src/server.js: a products API whose handlers read and write    *)
(* one JSON file (products.json) through readProducts / writeProducts.     *)
(*                                                                         *)
(* JavaScript values are tagged records, request bodies are key/value      *)
(* lists in Object.keys order, file contents are token sequences, and the  *)
(* file system is a directory of two names over a small pool of inodes, so *)
(* that open('w'), write, and rename act as they do on a POSIX system.     *)
(***************************************************************************)
EXTENDS Integers, Sequences, FiniteSets, TLC

(* ------------------------------ bounds --------------------------------- *)

\* handler invocations that may be in flight at once
MaxInFlight == 2
\* requests started in one behaviour of Spec
MaxReqs == 2
\* injected file-system failures in one behaviour
MaxFaults == 1
\* requests started in one behaviour of the sequential specification
MaxSeqReqs == 4
\* requests started in one behaviour of the write-race specification
MaxRaceReqs == 4
\* keys in a request body drawn by the validation specification
MaxKeys == 3

(* --------------------------- JavaScript values ------------------------- *)

\* q is the kind of a number: "int" (n), "frac" (n + 1/2), "nan", "inf"
Str(s) == [t |-> "string", q |-> "", n |-> 0, s |-> s, b |-> FALSE]
Num(n) == [t |-> "number", q |-> "int", n |-> n, s |-> <<>>, b |-> FALSE]
Frac(n) == [t |-> "number", q |-> "frac", n |-> n, s |-> <<>>, b |-> FALSE]
NaN == [t |-> "number", q |-> "nan", n |-> 0, s |-> <<>>, b |-> FALSE]
Infinity == [t |-> "number", q |-> "inf", n |-> 0, s |-> <<>>, b |-> FALSE]
Bool(b) == [t |-> "boolean", q |-> "", n |-> 0, s |-> <<>>, b |-> b]
Null == [t |-> "object", q |-> "", n |-> 0, s |-> <<>>, b |-> FALSE]
Undefined == [t |-> "undefined", q |-> "", n |-> 0, s |-> <<>>, b |-> FALSE]

TypeOf(v) == v.t

\* Number.isFinite
IsFinite(v) == v.t = "number" /\ v.q \in {"int", "frac"}

\* Number.isInteger
IsInteger(v) == v.t = "number" /\ v.q = "int"

\* v < 0 for a number v (comparisons with NaN are false)
LessThanZero(v) == v.t = "number" /\ v.q \in {"int", "frac"} /\ v.n < 0

\* v <= 0 for a number v
AtMostZero(v) == v.t = "number" /\ v.q = "int" /\ v.n <= 0

\* String.prototype.trim on a string given as a sequence of characters
RECURSIVE TrimLeft(_)
TrimLeft(s) == IF s # <<>> /\ Head(s) = " " THEN TrimLeft(Tail(s)) ELSE s

RECURSIVE TrimRight(_)
TrimRight(s) ==
  IF s # <<>> /\ s[Len(s)] = " " THEN TrimRight(SubSeq(s, 1, Len(s) - 1)) ELSE s

Trim(s) == TrimRight(TrimLeft(s))

\* Number(req.params.id) on the path parameters the model sends
NumberOf(p) ==
  CASE p = "1" -> Num(1)
    [] p = "2" -> Num(2)
    [] p = "3" -> Num(3)
    [] p = "0" -> Num(0)
    [] p = "-1" -> Num(-1)
    [] p = "1.5" -> Frac(1)
    [] OTHER -> NaN

(* ----------------------------- request body ---------------------------- *)

\* a body is a sequence of [k, v] in Object.keys order, keys distinct
KV(k, v) == [k |-> k, v |-> v]

Keys(body) == [i \in DOMAIN body |-> body[i].k]

KeySet(body) == {body[i].k : i \in DOMAIN body}

\* 'k' in body
In(k, body) == k \in KeySet(body)

\* body.k (undefined when absent)
Get(body, k) ==
  IF In(k, body) THEN body[CHOOSE i \in DOMAIN body : body[i].k = k].v ELSE Undefined

(* ------------------------------ validation ----------------------------- *)

allowedKeys == {"name", "price", "inStock"}

\* the loop over keys pushing `Unknown field: ${k}`
RECURSIVE UnknownErrors(_)
UnknownErrors(keys) ==
  IF keys = <<>> THEN <<>>
  ELSE (IF Head(keys) \notin allowedKeys
          THEN <<"Unknown field: " \o Head(keys)>> ELSE <<>>)
       \o UnknownErrors(Tail(keys))

BadName(v) == TypeOf(v) # "string" \/ Trim(v.s) = <<>>

BadPrice(v) == TypeOf(v) # "number" \/ ~IsFinite(v) \/ LessThanZero(v)

BadInStock(v) == TypeOf(v) # "boolean"

NameErrors(body, isPartial) ==
  IF (IF isPartial THEN In("name", body) ELSE TRUE) /\ BadName(Get(body, "name"))
    THEN <<"name must be a non-empty string">> ELSE <<>>

PriceErrorsAllowingNegative(body, isPartial) ==
  IF (IF isPartial THEN In("price", body) ELSE TRUE)
       /\ (TypeOf(Get(body, "price")) # "number" \/ ~IsFinite(Get(body, "price")))
    THEN <<"price must be a non-negative number">> ELSE <<>>

PriceErrors(body, isPartial) ==
  IF (IF isPartial THEN In("price", body) ELSE TRUE) /\ BadPrice(Get(body, "price"))
    THEN <<"price must be a non-negative number">> ELSE <<>>

InStockErrorsOfAbsentKey(body, isPartial) ==
  IF BadInStock(Get(body, "inStock")) THEN <<"inStock must be a boolean">> ELSE <<>>

InStockErrors(body, isPartial) ==
  IF (IF isPartial THEN In("inStock", body) ELSE TRUE)
       /\ BadInStock(Get(body, "inStock"))
    THEN <<"inStock must be a boolean">> ELSE <<>>

validateProductInputAllowingId(body, isPartial) ==
  UnknownErrors(SelectSeq(Keys(body), LAMBDA k : k # "id"))
    \o NameErrors(body, isPartial)
    \o PriceErrors(body, isPartial)
    \o InStockErrors(body, isPartial)

validateProductInput(body, isPartial) ==
  UnknownErrors(Keys(body))
    \o NameErrors(body, isPartial)
    \o PriceErrors(body, isPartial)
    \o InStockErrors(body, isPartial)

(* ------------------------------- products ------------------------------ *)

\* a product is a JavaScript object: a function from its keys to values
Product(id, name, price, inStock) ==
  [id |-> id, name |-> name, price |-> price, inStock |-> inStock]

\* obj[k] = v
Put(obj, k, v) ==
  IF k \in DOMAIN obj THEN [obj EXCEPT ![k] = v]
  ELSE [x \in DOMAIN obj \cup {k} |-> IF x = k THEN v ELSE obj[x]]

\* { ...obj, ...body }
RECURSIVE Spread(_, _)
Spread(obj, body) ==
  IF body = <<>> THEN obj
  ELSE Spread(Put(obj, Head(body).k, Head(body).v), Tail(body))

\* p.id > max, for the numbers the model stores
GreaterThan(v, max) ==
  /\ v.t = "number" /\ max.t = "number"
  /\ \/ v.q = "int" /\ max.q = "int" /\ v.n > max.n
     \/ v.q = "inf" /\ max.q # "inf"

\* products.reduce((max, p) => (typeof p.id === 'number' && p.id > max ? p.id : max), 0)
RECURSIVE ReduceMaxId(_, _)
ReduceMaxId(products, max) ==
  IF products = <<>> THEN max
  ELSE ReduceMaxId(Tail(products),
         IF TypeOf(Head(products).id) = "number" /\ GreaterThan(Head(products).id, max)
           THEN Head(products).id ELSE max)

\* maxId + 1
PlusOne(v) == IF v.q = "int" THEN Num(v.n + 1) ELSE v

NextIdReusingLength(products) == Num(Len(products) + 1)

\* id: maxId + 1
NextId(products) == PlusOne(ReduceMaxId(products, Num(0)))

NewProductUntrimmed(products, body) ==
  Product(NextId(products), Get(body, "name"), Get(body, "price"), Get(body, "inStock"))

\* const newProduct = { id: maxId + 1, name: req.body.name.trim(), price, inStock }
NewProduct(products, body) ==
  Product(NextId(products), Str(Trim(Get(body, "name").s)),
          Get(body, "price"), Get(body, "inStock"))

\* p && ..., for an element p of the collection: an object, or null
Truthy(p) == p # Null

\* p.id throws a TypeError for some element p of the collection
Throws(products) == \E i \in DOMAIN products : ~Truthy(products[i])

\* p => p && p.id === id
Matches(p, id) == Truthy(p) /\ p.id = id

\* products.findIndex(p => p && p.id === id); 0 stands for -1
FindIndex(products, id) ==
  IF \E i \in DOMAIN products : Matches(products[i], id)
    THEN CHOOSE i \in DOMAIN products :
           /\ Matches(products[i], id)
           /\ \A j \in 1..(i - 1) : ~Matches(products[j], id)
    ELSE 0

UpdatedReplacing(obj, body) ==
  Spread(Product(obj.id, Str(<<>>), Num(0), Bool(FALSE)), body)

\* const updated = { ...products[idx], ...req.body }; then the trim of a string name
Updated(obj, body) ==
  LET u == Spread(obj, body)
  IN IF TypeOf(u.name) = "string" THEN [u EXCEPT !.name = Str(Trim(u.name.s))] ELSE u

RemainingButFirst(products, id) ==
  LET idx == FindIndex(products, id)
  IN SelectSeq([i \in DOMAIN products |-> IF i = idx THEN Null ELSE products[i]],
               LAMBDA p : Truthy(p))

\* products.filter(p => p && p.id !== id)
Remaining(products, id) == SelectSeq(products, LAMBDA p : Truthy(p) /\ p.id # id)

(* --------------------------------- JSON -------------------------------- *)

\* file contents are token sequences: "[", one token per element (an object,
\* or null), "]", and white space; "nul" is a byte of a hole left by a write
\* past the end of the file
NoObj == [none |-> TRUE]
Open == [k |-> "[", o |-> NoObj]
Close == [k |-> "]", o |-> NoObj]
Nul == [k |-> "nul", o |-> NoObj]
Ws == [k |-> " ", o |-> NoObj]
Obj(p) == [k |-> "{}", o |-> p]

\* JSON.stringify of a value: NaN and the infinities become null
JsonValue(v) == IF v.t = "number" /\ v.q \in {"nan", "inf"} THEN Null ELSE v

\* JSON.stringify of an element: keys whose value is undefined are left out
JsonObject(p) ==
  IF p = Null THEN Null
  ELSE IF \A k \in DOMAIN p : p[k] # Undefined /\ JsonValue(p[k]) = p[k] THEN p
  ELSE [k \in {x \in DOMAIN p : p[x] # Undefined} |-> JsonValue(p[k])]

StringifyReversed(products) ==
  <<Open>> \o [i \in DOMAIN products |->
                 Obj(JsonObject(products[Len(products) + 1 - i]))] \o <<Close>>

\* JSON.stringify(products, null, 2)
Stringify(products) ==
  <<Open>> \o [i \in DOMAIN products |-> Obj(JsonObject(products[i]))] \o <<Close>>

\* data.trim() === ''
IsWhitespace(data) == \A i \in DOMAIN data : data[i] = Ws

\* the tokens JSON.parse reads: white space between tokens is skipped
JsonText(data) == SelectSeq(data, LAMBDA t : t # Ws)

\* JSON.parse succeeds on data and yields a value that is not an array
ParsesToValue(data) == Len(data) = 1 /\ data[1].k = "{}"

\* JSON.parse succeeds on data and yields an array
ParsesToArray(data) ==
  /\ Len(data) >= 2
  /\ data[1] = Open
  /\ data[Len(data)] = Close
  /\ \A i \in 2..(Len(data) - 1) : data[i].k = "{}"

\* the array JSON.parse yields
Parsed(data) == [i \in 1..(Len(data) - 2) |-> data[i + 1].o]

(* ------------------------------ file system ---------------------------- *)

\* the result of fs.readFile(DATA_FILE): err.code and the data
ReadFile(d, ino) ==
  IF d.data = 0 THEN [err |-> "ENOENT", data |-> <<>>]
  ELSE [err |-> "", data |-> ino[d.data]]

ResolvedKeepingValue(rd) ==
  LET text == JsonText(rd.data)
  IN IF rd.err = "ENOENT" THEN <<>>
     ELSE IF rd.data = <<>> \/ IsWhitespace(rd.data) THEN <<>>
     ELSE IF ParsesToValue(text) THEN <<text[1].o>>
     ELSE IF ~ParsesToArray(text) THEN <<>>
     ELSE Parsed(text)

\* what readProducts resolves to, given the result of fs.readFile
Resolved(rd) ==
  LET text == JsonText(rd.data)
  IN IF rd.err = "ENOENT" THEN <<>>
     ELSE IF rd.data = <<>> \/ IsWhitespace(rd.data) THEN <<>>
     ELSE IF ~(ParsesToArray(text) \/ ParsesToValue(text)) THEN <<>>
     ELSE IF ~ParsesToArray(text) THEN <<>>
     ELSE Parsed(text)

\* the bytes of a file after a write of chunk at offset off
WriteAt(content, off, chunk) ==
  [i \in 1..(IF Len(content) > off + Len(chunk) THEN Len(content) ELSE off + Len(chunk)) |->
     IF i > off /\ i <= off + Len(chunk) THEN chunk[i - off]
     ELSE IF i <= Len(content) THEN content[i]
     ELSE Nul]

(* --------------------------------- state ------------------------------- *)

VARIABLES
  req,       \* req[r]: the handler invocation in slot r
  dir,       \* the directory: the inode of DATA_FILE and of DATA_FILE + '.tmp' (0: none)
  inode,     \* inode[i]: the content of inode i
  nstarted,  \* requests started so far
  faults,    \* file-system failures injected so far
  initial,   \* what fs.readFile(DATA_FILE) gave before any request
  passed,    \* the serializations passed to fs.writeFile by writeProducts so far
  assigned,  \* the products returned by creates (201), in response order
  streak     \* the ids returned by creates since a request other than a create began

vars == <<req, dir, inode, nstarted, faults, initial, passed, assigned, streak>>

Slots == 1..MaxInFlight

Inodes == 1..(MaxInFlight + 2)

NoRead == [err |-> "none", data |-> <<>>]

\* a slot no request has used
Blank ==
  [pc |-> "idle", kind |-> "none", param |-> "", body |-> <<>>, errors |-> <<>>,
   rd |-> NoRead, loaded |-> <<>>, products |-> <<>>, off |-> 0, fd |-> 0,
   status |-> 0, message |-> "", result |-> <<>>, ops |-> 0]

\* res.status(status).json(...): the handler returns
Respond(q, status, message, result) ==
  [q EXCEPT !.pc = "done", !.fd = 0, !.status = status, !.message = message,
            !.result = result]

\* the lowest slot that holds no running handler
Free(r) ==
  /\ req[r].pc \in {"idle", "done"}
  /\ \A q \in 1..(r - 1) : req[q].pc \notin {"idle", "done"}

\* inodes a name or an open descriptor refers to
Refs(d, rq) == {d.data, d.tmp} \cup {rq[r].fd : r \in Slots}

\* contents of the live inodes; an inode nothing refers to is gone
Live(ino, d, rq) == [i \in Inodes |-> IF i \in Refs(d, rq) THEN ino[i] ELSE <<>>]

\* the inode a newly created file gets
Fresh(d, rq) ==
  CHOOSE i \in Inodes : i \notin Refs(d, rq) /\ \A j \in 1..(i - 1) : j \in Refs(d, rq)

\* the message of a handler's catch block
FailureMessage(kind) ==
  CASE kind = "post" -> "Failed to save product"
    [] kind = "put" -> "Failed to update product"
    [] kind = "delete" -> "Failed to delete product"
    [] OTHER -> "Failed to read products"

Init ==
  /\ req = [r \in Slots |-> Blank]
  /\ inode = [i \in Inodes |-> <<>>]
  /\ dir \in {[data |-> 0, tmp |-> 0], [data |-> 1, tmp |-> 0]}
  /\ nstarted = 0
  /\ faults = 0
  /\ initial = ReadFile(dir, inode)
  /\ passed = {}
  /\ assigned = <<>>
  /\ streak = <<>>

(* ------------------------- handlers: up to the read -------------------- *)

\* app.get('/products'): calls readProducts
ListStart(r) ==
  /\ Free(r)
  /\ req' = [req EXCEPT ![r] = [Blank EXCEPT !.pc = "read", !.kind = "list"]]
  /\ nstarted' = nstarted + 1
  /\ streak' = <<>>
  /\ UNCHANGED <<dir, inode, faults, initial, passed, assigned>>

\* app.get('/products/instock'): calls readProducts
InStockStart(r) ==
  /\ Free(r)
  /\ req' = [req EXCEPT ![r] = [Blank EXCEPT !.pc = "read", !.kind = "instock"]]
  /\ nstarted' = nstarted + 1
  /\ streak' = <<>>
  /\ UNCHANGED <<dir, inode, faults, initial, passed, assigned>>

\* app.post('/products'): validation, then the call of readProducts
PostStart(r, body) ==
  /\ Free(r)
  /\ LET errors == validateProductInput(body, FALSE)
         q == [Blank EXCEPT !.kind = "post", !.body = body, !.errors = errors]
     IN req' = [req EXCEPT ![r] =
                  IF errors # <<>> THEN Respond(q, 400, "Invalid input", <<>>)
                  ELSE [q EXCEPT !.pc = "read"]]
  /\ nstarted' = nstarted + 1
  /\ UNCHANGED <<dir, inode, faults, initial, passed, assigned, streak>>

PutStartValidatingFirst(r, param, body) ==
  /\ Free(r)
  /\ LET id == NumberOf(param)
         errors == validateProductInput(body, TRUE)
         q == [Blank EXCEPT !.kind = "put", !.param = param, !.body = body]
     IN req' = [req EXCEPT ![r] =
                  IF errors # <<>>
                    THEN Respond([q EXCEPT !.errors = errors], 400, "Invalid input", <<>>)
                  ELSE IF ~IsInteger(id) \/ AtMostZero(id)
                    THEN Respond(q, 400, "Invalid id", <<>>)
                  ELSE [q EXCEPT !.pc = "read"]]
  /\ nstarted' = nstarted + 1
  /\ streak' = <<>>
  /\ UNCHANGED <<dir, inode, faults, initial, passed, assigned>>

\* app.put('/products/:id'): the id check, validation, then the call of readProducts
PutStart(r, param, body) ==
  /\ Free(r)
  /\ LET id == NumberOf(param)
         errors == validateProductInput(body, TRUE)
         q == [Blank EXCEPT !.kind = "put", !.param = param, !.body = body]
     IN req' = [req EXCEPT ![r] =
                  IF ~IsInteger(id) \/ AtMostZero(id)
                    THEN Respond(q, 400, "Invalid id", <<>>)
                  ELSE IF errors # <<>>
                    THEN Respond([q EXCEPT !.errors = errors], 400, "Invalid input", <<>>)
                  ELSE [q EXCEPT !.pc = "read"]]
  /\ nstarted' = nstarted + 1
  /\ streak' = <<>>
  /\ UNCHANGED <<dir, inode, faults, initial, passed, assigned>>

\* app.delete('/products/:id'): the id check, then the call of readProducts
DeleteStart(r, param) ==
  /\ Free(r)
  /\ LET id == NumberOf(param)
         q == [Blank EXCEPT !.kind = "delete", !.param = param]
     IN req' = [req EXCEPT ![r] =
                  IF ~IsInteger(id) \/ AtMostZero(id)
                    THEN Respond(q, 400, "Invalid id", <<>>)
                  ELSE [q EXCEPT !.pc = "read"]]
  /\ nstarted' = nstarted + 1
  /\ streak' = <<>>
  /\ UNCHANGED <<dir, inode, faults, initial, passed, assigned>>

(* ------------------ handlers: from the read to the write --------------- *)

\* writeProducts(products) is called: the json is built and fs.writeFile starts
CallWrite(q, products) ==
  [q EXCEPT !.pc = "open", !.products = products, !.off = 0]

\* app.get('/products') after readProducts resolves
ListRead(r) ==
  /\ req[r].pc = "read" /\ req[r].kind = "list"
  /\ \E rd \in {ReadFile(dir, inode)} :
       \E products \in {Resolved(rd)} :
         req' = [req EXCEPT ![r] =
                   Respond([@ EXCEPT !.rd = rd, !.loaded = products], 200, "", products)]
  /\ UNCHANGED <<dir, inode, nstarted, faults, initial, passed, assigned, streak>>

\* products.filter(p => p && p.inStock === true)
InStock(products) ==
  SelectSeq(products, LAMBDA p : Truthy(p) /\ p.inStock = Bool(TRUE))

InStockReadTruthy(r) ==
  /\ req[r].pc = "read" /\ req[r].kind = "instock"
  /\ LET rd == ReadFile(dir, inode)
         products == Resolved(rd)
         kept == SelectSeq(products,
                   LAMBDA p : Truthy(p) /\ p.inStock \notin {Bool(FALSE), Num(0), Str(<<>>), Null})
     IN req' = [req EXCEPT ![r] =
                  Respond([@ EXCEPT !.rd = rd, !.loaded = products], 200, "", kept)]
  /\ UNCHANGED <<dir, inode, nstarted, faults, initial, passed, assigned, streak>>

\* app.get('/products/instock') after readProducts resolves
InStockRead(r) ==
  /\ req[r].pc = "read" /\ req[r].kind = "instock"
  /\ \E rd \in {ReadFile(dir, inode)} :
       \E products \in {Resolved(rd)} :
         req' = [req EXCEPT ![r] =
                   Respond([@ EXCEPT !.rd = rd, !.loaded = products], 200, "",
                           InStock(products))]
  /\ UNCHANGED <<dir, inode, nstarted, faults, initial, passed, assigned, streak>>

\* app.post('/products') after readProducts resolves, up to fs.writeFile
PostRead(r) ==
  /\ req[r].pc = "read" /\ req[r].kind = "post"
  /\ \E rd \in {ReadFile(dir, inode)} :
       \E products \in {Resolved(rd)} :
         \E q \in {[req[r] EXCEPT !.rd = rd, !.loaded = products]} :
           IF Throws(products)
             THEN /\ req' = [req EXCEPT ![r] =
                               Respond(q, 500, FailureMessage("post"), <<>>)]
                  /\ passed' = passed
             ELSE \E newProduct \in {NewProduct(products, req[r].body)} :
                    \E pushed \in {Append(products, newProduct)} :
                      /\ req' = [req EXCEPT ![r] =
                                   CallWrite([q EXCEPT !.result = <<newProduct>>],
                                             pushed)]
                      /\ passed' = passed \cup {Stringify(pushed)}
  /\ UNCHANGED <<dir, inode, nstarted, faults, initial, assigned, streak>>

\* app.put('/products/:id') after readProducts resolves, up to fs.writeFile
PutRead(r) ==
  /\ req[r].pc = "read" /\ req[r].kind = "put"
  /\ \E rd \in {ReadFile(dir, inode)} :
       \E products \in {Resolved(rd)} :
         \E idx \in {FindIndex(products, NumberOf(req[r].param))} :
           \E q \in {[req[r] EXCEPT !.rd = rd, !.loaded = products]} :
             IF idx = 0
               THEN /\ req' = [req EXCEPT ![r] =
                                 Respond(q, 404, "Product not found", <<>>)]
                    /\ passed' = passed
               ELSE \E updated \in {Updated(products[idx], req[r].body)} :
                      \E replaced \in {[products EXCEPT ![idx] = updated]} :
                        /\ req' = [req EXCEPT ![r] =
                                     CallWrite([q EXCEPT !.result = <<updated>>],
                                               replaced)]
                        /\ passed' = passed \cup {Stringify(replaced)}
  /\ UNCHANGED <<dir, inode, nstarted, faults, initial, assigned, streak>>

DeleteReadAlwaysWriting(r) ==
  /\ req[r].pc = "read" /\ req[r].kind = "delete"
  /\ LET rd == ReadFile(dir, inode)
         products == Resolved(rd)
         remaining == Remaining(products, NumberOf(req[r].param))
         q == [req[r] EXCEPT !.rd = rd, !.loaded = products]
     IN /\ req' = [req EXCEPT ![r] = CallWrite(q, remaining)]
        /\ passed' = passed \cup {Stringify(remaining)}
  /\ UNCHANGED <<dir, inode, nstarted, faults, initial, assigned, streak>>

\* app.delete('/products/:id') after readProducts resolves, up to fs.writeFile
DeleteRead(r) ==
  /\ req[r].pc = "read" /\ req[r].kind = "delete"
  /\ \E rd \in {ReadFile(dir, inode)} :
       \E products \in {Resolved(rd)} :
         \E lengthBefore \in {Len(products)} :
           \E remaining \in {Remaining(products, NumberOf(req[r].param))} :
             \E q \in {[req[r] EXCEPT !.rd = rd, !.loaded = products]} :
               IF Len(remaining) = lengthBefore
                 THEN /\ req' = [req EXCEPT ![r] =
                                   Respond(q, 404, "Product not found", <<>>)]
                      /\ passed' = passed
                 ELSE /\ req' = [req EXCEPT ![r] = CallWrite(q, remaining)]
                      /\ passed' = passed \cup {Stringify(remaining)}
  /\ UNCHANGED <<dir, inode, nstarted, faults, initial, assigned, streak>>

\* fs.readFile fails with an error other than ENOENT: readProducts rejects
ReadError(r) ==
  /\ req[r].pc = "read"
  /\ faults < MaxFaults
  /\ faults' = faults + 1
  /\ req' = [req EXCEPT ![r] =
               Respond([@ EXCEPT !.rd = [err |-> "EIO", data |-> <<>>]],
                       500, FailureMessage(@.kind), <<>>)]
  /\ UNCHANGED <<dir, inode, nstarted, initial, passed, assigned, streak>>

(* ------------------------------ writeProducts -------------------------- *)

\* status, message and body of the response once writeProducts resolves
Success(q) ==
  CASE q.kind = "post" -> Respond(q, 201, "", q.result)
    [] q.kind = "put" -> Respond(q, 200, "", q.result)
    [] OTHER -> Respond(q, 200, "Product deleted successfully", <<>>)

\* fs.writeFile opens DATA_FILE + '.tmp' with flag 'w': created, or truncated
WriteOpen(r) ==
  /\ req[r].pc = "open"
  /\ IF dir.tmp # 0
       THEN /\ dir' = dir
            /\ req' = [req EXCEPT ![r] = [@ EXCEPT !.pc = "write", !.fd = dir.tmp,
                                                   !.ops = @ + 1]]
            /\ inode' = [inode EXCEPT ![dir.tmp] = <<>>]
       ELSE /\ dir' = [dir EXCEPT !.tmp = Fresh(dir, req)]
            /\ req' = [req EXCEPT ![r] = [@ EXCEPT !.pc = "write", !.fd = dir'.tmp,
                                                   !.ops = @ + 1]]
            /\ inode' = inode
  /\ UNCHANGED <<nstarted, faults, initial, passed, assigned, streak>>

\* fs.writeFile cannot open the temporary file: writeProducts rejects
WriteOpenError(r) ==
  /\ req[r].pc = "open"
  /\ faults < MaxFaults
  /\ faults' = faults + 1
  /\ req' = [req EXCEPT ![r] = Respond(@, 500, FailureMessage(@.kind), <<>>)]
  /\ UNCHANGED <<dir, inode, nstarted, initial, passed, assigned, streak>>

\* fs.writeFile writes the next n tokens of the json at its offset; after the
\* last one it closes the file and its callback calls fs.rename
WriteChunk(r, n) ==
  /\ req[r].pc = "write"
  /\ LET json == Stringify(req[r].products)
         off == req[r].off
     IN /\ n \in 1..(Len(json) - off)
        /\ req' = [req EXCEPT ![r] =
                     IF off + n = Len(json)
                       THEN [@ EXCEPT !.pc = "rename", !.off = off + n, !.fd = 0,
                                      !.ops = @ + 1]
                       ELSE [@ EXCEPT !.off = off + n, !.ops = @ + 1]]
        /\ inode' = Live([inode EXCEPT ![req[r].fd] =
                            WriteAt(@, off, SubSeq(json, off + 1, off + n))],
                         dir, req')
  /\ UNCHANGED <<dir, nstarted, faults, initial, passed, assigned, streak>>

WriteErrorThenRename(r) ==
  /\ req[r].pc = "write"
  /\ faults < MaxFaults
  /\ faults' = faults + 1
  /\ req' = [req EXCEPT ![r] = Respond(@, 500, FailureMessage(@.kind), <<>>)]
  /\ dir' = [data |-> dir.tmp, tmp |-> 0]
  /\ inode' = Live(inode, dir', req')
  /\ UNCHANGED <<nstarted, initial, passed, assigned, streak>>

\* a write of fs.writeFile fails: the file is closed and writeProducts rejects
WriteError(r) ==
  /\ req[r].pc = "write"
  /\ faults < MaxFaults
  /\ faults' = faults + 1
  /\ req' = [req EXCEPT ![r] = Respond(@, 500, FailureMessage(@.kind), <<>>)]
  /\ inode' = Live(inode, dir, req')
  /\ UNCHANGED <<dir, nstarted, initial, passed, assigned, streak>>

RenameCopying(r) ==
  /\ req[r].pc = "rename"
  /\ IF dir.tmp = 0
       THEN /\ req' = [req EXCEPT ![r] = Respond(@, 500, FailureMessage(@.kind), <<>>)]
            /\ UNCHANGED <<dir, inode, assigned, streak>>
       ELSE /\ req' = [req EXCEPT ![r] = Success([@ EXCEPT !.ops = @ + 1])]
            /\ dir' = [dir EXCEPT !.data = dir.tmp]
            /\ inode' = Live(inode, dir', req')
            /\ assigned' = IF req[r].kind = "post"
                             THEN Append(assigned, req[r].result[1]) ELSE assigned
            /\ streak' = IF req[r].kind = "post"
                           THEN Append(streak, req[r].result[1].id) ELSE streak
  /\ UNCHANGED <<nstarted, faults, initial, passed>>

\* fs.rename(tempFile, DATA_FILE) and the handler's response; the rename fails
\* with ENOENT when another writeProducts has renamed the temporary file away
Rename(r) ==
  /\ req[r].pc = "rename"
  /\ IF dir.tmp = 0
       THEN /\ req' = [req EXCEPT ![r] = Respond(@, 500, FailureMessage(@.kind), <<>>)]
            /\ UNCHANGED <<dir, inode, assigned, streak>>
       ELSE /\ req' = [req EXCEPT ![r] = Success([@ EXCEPT !.ops = @ + 1])]
            /\ dir' = [data |-> dir.tmp, tmp |-> 0]
            /\ inode' = Live(inode, dir', req')
            /\ assigned' = IF req[r].kind = "post"
                             THEN Append(assigned, req[r].result[1]) ELSE assigned
            /\ streak' = IF req[r].kind = "post"
                           THEN Append(streak, req[r].result[1].id) ELSE streak
  /\ UNCHANGED <<nstarted, faults, initial, passed>>

RenameErrorUnanswered(r) ==
  /\ req[r].pc = "rename"
  /\ faults < MaxFaults
  /\ faults' = faults + 1
  /\ req' = [req EXCEPT ![r] = [@ EXCEPT !.pc = "failed"]]
  /\ UNCHANGED <<dir, inode, nstarted, initial, passed, assigned, streak>>

\* fs.rename fails for another reason: writeProducts rejects, the temporary file stays
RenameError(r) ==
  /\ req[r].pc = "rename"
  /\ faults < MaxFaults
  /\ faults' = faults + 1
  /\ req' = [req EXCEPT ![r] = Respond(@, 500, FailureMessage(@.kind), <<>>)]
  /\ UNCHANGED <<dir, inode, nstarted, initial, passed, assigned, streak>>

(* ----------------------------- specifications -------------------------- *)

\* no handler is running
Quiet == \A q \in Slots : req[q].pc \in {"idle", "done"}

ValidA == <<KV("name", Str(<<" ", "A">>)), KV("price", Num(5)), KV("inStock", Bool(TRUE))>>
ValidB == <<KV("name", Str(<<"B">>)), KV("price", Num(0)), KV("inStock", Bool(FALSE))>>
OnlyFoo == <<KV("foo", Num(1))>>
OnlyPrice == <<KV("price", Num(7))>>
OnlyName == <<KV("name", Str(<<"C", " ">>))>>
OnlyId == <<KV("id", Num(2))>>

\* the requests the clients of Spec send
PostBodies == {ValidA, OnlyFoo}

Puts ==
  { <<"1", OnlyPrice>>, <<"1", OnlyName>>, <<"1", OnlyId>>, <<"0", OnlyId>>,
    <<"1", <<KV("price", Num(-1))>>>> }

Deletes == {"1", "0"}

\* Spec: up to MaxInFlight handlers run at once, any file-system step may fail
Next ==
  \E r \in Slots :
    \/ nstarted < MaxReqs /\ ListStart(r)
    \/ nstarted < MaxReqs /\ \E b \in PostBodies : PostStart(r, b)
    \/ nstarted < MaxReqs /\ \E x \in Puts : PutStart(r, x[1], x[2])
    \/ nstarted < MaxReqs /\ \E p \in Deletes : DeleteStart(r, p)
    \/ ListRead(r)
    \/ PostRead(r)
    \/ PutRead(r)
    \/ DeleteRead(r)
    \/ ReadError(r)
    \/ WriteOpen(r)
    \/ WriteOpenError(r)
    \/ \E n \in 1..(MaxReqs + 2) : WriteChunk(r, n)
    \/ WriteError(r)
    \/ Rename(r)
    \/ RenameError(r)

Spec == Init /\ [][Next]_vars

\* SpecPair: overlapping creates of two different products
NextPair ==
  \E r \in Slots :
    \/ nstarted < MaxReqs /\ \E b \in {ValidA, ValidB} : PostStart(r, b)
    \/ PostRead(r)
    \/ WriteOpen(r)
    \/ \E n \in 1..(MaxReqs + 2) : WriteChunk(r, n)
    \/ Rename(r)

SpecPair == Init /\ [][NextPair]_vars

\* SpecRace: overlapping requests on a file system that never fails
NextRace ==
  \E r \in Slots :
    \/ nstarted < MaxRaceReqs /\ ListStart(r)
    \/ nstarted < MaxRaceReqs /\ PostStart(r, ValidA)
    \/ nstarted < MaxRaceReqs /\ PutStart(r, "1", OnlyPrice)
    \/ nstarted < MaxRaceReqs /\ DeleteStart(r, "1")
    \/ ListRead(r)
    \/ PostRead(r)
    \/ PutRead(r)
    \/ DeleteRead(r)
    \/ WriteOpen(r)
    \/ \E n \in 1..(MaxRaceReqs + 2) : WriteChunk(r, n)
    \/ Rename(r)

SpecRace == Init /\ [][NextRace]_vars

\* SpecWhole: as SpecRace, and every fs.writeFile writes its json in one write
NextWhole ==
  \E r \in Slots :
    \/ nstarted < MaxRaceReqs /\ ListStart(r)
    \/ nstarted < MaxRaceReqs /\ PostStart(r, ValidA)
    \/ nstarted < MaxRaceReqs /\ PutStart(r, "1", OnlyPrice)
    \/ nstarted < MaxRaceReqs /\ DeleteStart(r, "1")
    \/ ListRead(r)
    \/ PostRead(r)
    \/ PutRead(r)
    \/ DeleteRead(r)
    \/ WriteOpen(r)
    \/ WriteChunk(r, Len(Stringify(req[r].products)))
    \/ Rename(r)

SpecWhole == Init /\ [][NextWhole]_vars

\* SpecSeq: each request begins after the one before it has been answered
NextSeq ==
  \/ nstarted < MaxSeqReqs /\ Quiet /\ \E b \in {ValidA, OnlyFoo} : PostStart(1, b)
  \/ nstarted < MaxSeqReqs /\ Quiet /\ \E p \in {"1", "2"} : DeleteStart(1, p)
  \/ PostRead(1)
  \/ DeleteRead(1)
  \/ ReadError(1)
  \/ WriteOpen(1)
  \/ WriteOpenError(1)
  \/ \E n \in 1..(MaxSeqReqs + 2) : WriteChunk(1, n)
  \/ WriteError(1)
  \/ Rename(1)
  \/ RenameError(1)

SpecSeq == Init /\ [][NextSeq]_vars

\* values and keys of the bodies SpecVal sends
Values ==
  {Str(<<"A">>), Str(<<" ">>), Num(1), Num(-1), Infinity, Bool(TRUE), Null}

BodyKeys == {"name", "price", "inStock", "foo", "id"}

Bodies ==
  UNION { { b \in [1..n -> [k : BodyKeys, v : Values]] :
              \A i, j \in 1..n : i # j => b[i].k # b[j].k } : n \in 0..MaxKeys }

\* SpecVal: one create with any body
NextVal ==
  \/ nstarted = 0 /\ \E b \in Bodies : PostStart(1, b)
  \/ PostRead(1)
  \/ WriteOpen(1)
  \/ \E n \in 1..3 : WriteChunk(1, n)
  \/ Rename(1)

SpecVal == Init /\ [][NextVal]_vars

\* records a data file may hold when the service starts
Stocked == Product(Num(1), Str(<<"A">>), Num(5), Bool(TRUE))
StockedOne == Product(Num(2), Str(<<"B">>), Num(0), Num(1))
StockedYes == Product(Num(3), Str(<<"C">>), Num(1), Str(<<"y", "e", "s">>))
Unstocked == Product(Num(4), Str(<<"D">>), Num(2), Bool(FALSE))
Twin == Product(Num(1), Str(<<"E">>), Num(3), Bool(TRUE))

\* collections a data file may hold when the service starts
Collections ==
  { <<>>, <<Stocked>>, <<Stocked, StockedOne, StockedYes, Unstocked>>,
    <<Unstocked, Stocked, StockedOne, Twin>>, <<Null, Stocked>> }

\* contents without text, contents that are not JSON, JSON that is no array
EmptyFiles == {<<>>, <<Ws>>, <<Ws, Ws>>}
InvalidFiles ==
  { <<Open>>, <<Open, Obj(Stocked)>>, <<Open, Obj(Stocked), Close, Close>>,
    <<Nul, Obj(Stocked), Close>>, <<Ws, Close>> }
ValueFiles == {<<Obj(Stocked)>>, <<Ws, Obj(Null), Ws>>}
ArrayFiles ==
  {Stringify(c) : c \in Collections}
    \cup {<<Ws>> \o Stringify(c) \o <<Ws>> : c \in Collections}

Contents == EmptyFiles \cup InvalidFiles \cup ValueFiles \cup ArrayFiles

\* the data file is missing or holds any of Contents
InitLoad ==
  /\ req = [r \in Slots |-> Blank]
  /\ dir \in {[data |-> 0, tmp |-> 0], [data |-> 1, tmp |-> 0]}
  /\ inode \in {[i \in Inodes |-> IF i = 1 /\ dir.data = 1 THEN c ELSE <<>>] : c \in Contents}
  /\ nstarted = 0
  /\ faults = 0
  /\ initial = ReadFile(dir, inode)
  /\ passed = {}
  /\ assigned = <<>>
  /\ streak = <<>>

\* SpecLoad: requests one after another on a data file of any content; reads
\* may fail
NextLoad ==
  \/ nstarted < MaxReqs /\ Quiet /\ ListStart(1)
  \/ nstarted < MaxReqs /\ Quiet /\ InStockStart(1)
  \/ nstarted < MaxReqs /\ Quiet /\ PostStart(1, ValidA)
  \/ nstarted < MaxReqs /\ Quiet /\ \E b \in {OnlyPrice, OnlyFoo} : PutStart(1, "1", b)
  \/ nstarted < MaxReqs /\ Quiet /\ \E p \in {"1", "3", "0"} : DeleteStart(1, p)
  \/ ListRead(1)
  \/ InStockRead(1)
  \/ PostRead(1)
  \/ PutRead(1)
  \/ DeleteRead(1)
  \/ ReadError(1)
  \/ WriteOpen(1)
  \/ WriteChunk(1, Len(Stringify(req[1].products)))
  \/ Rename(1)

SpecLoad == InitLoad /\ [][NextLoad]_vars

\* path parameters and bodies of the updates SpecOrder sends
PutParams == {"1", "3", "0", "-1", "1.5", "x"}
PutBodies == {OnlyPrice, OnlyName, OnlyFoo, OnlyId, <<KV("price", Num(-1))>>, <<>>}

\* SpecOrder: updates one after another on a data file of any content
NextOrder ==
  \/ nstarted < MaxReqs /\ Quiet
       /\ \E param \in PutParams, b \in PutBodies : PutStart(1, param, b)
  \/ PutRead(1)
  \/ ReadError(1)
  \/ WriteOpen(1)
  \/ WriteChunk(1, Len(Stringify(req[1].products)))
  \/ Rename(1)

SpecOrder == InitLoad /\ [][NextOrder]_vars

\* the callback of the file-system operation that handler r waits for runs
\* with a result
Completes(r) ==
  \/ ListRead(r)
  \/ InStockRead(r)
  \/ PostRead(r)
  \/ PutRead(r)
  \/ DeleteRead(r)
  \/ WriteOpen(r)
  \/ WriteChunk(r, Len(Stringify(req[r].products)))
  \/ Rename(r)

\* SpecLive: overlapping requests of every kind, any file-system step may
\* fail, and every file-system operation that was started completes
NextLive ==
  \E r \in Slots :
    \/ nstarted < MaxReqs /\ ListStart(r)
    \/ nstarted < MaxReqs /\ InStockStart(r)
    \/ nstarted < MaxReqs /\ PostStart(r, ValidA)
    \/ nstarted < MaxReqs /\ PutStart(r, "1", OnlyPrice)
    \/ nstarted < MaxReqs /\ DeleteStart(r, "1")
    \/ Completes(r)
    \/ ReadError(r)
    \/ WriteOpenError(r)
    \/ WriteError(r)
    \/ RenameError(r)

SpecLive == Init /\ [][NextLive]_vars /\ \A r \in Slots : WF_vars(Completes(r))

\* SpecPartial: one update of /products/1 with any body
NextPartial ==
  \/ nstarted = 0 /\ \E b \in Bodies : PutStart(1, "1", b)
  \/ PutRead(1)

SpecPartial == Init /\ [][NextPartial]_vars

(* --------------------------------- claims ------------------------------ *)

\* the collection a readProducts would resolve to now
FileProducts == Resolved(ReadFile(dir, inode))

IdsOf(products) == {products[i].id : i \in DOMAIN products}

\* max(ids, 0) as a number
MaxOf(ids) ==
  LET ns == {v.n : v \in ids} \cup {0}
  IN CHOOSE m \in ns : \A n \in ns : n <= m

\* C1: every readProducts that reads the data file observes as its content
\* either the initial content (nothing, when the file was missing or empty) or
\* a complete serialization passed to some writeProducts call, whatever the
\* interleaving of the handlers.
C1_AtomicSave ==
  \A r \in Slots :
    req[r].rd.err = "" =>
      \/ req[r].rd.data = initial.data
      \/ req[r].rd.data \in passed

\* C2: starting from a missing or empty data file, no two records of the data
\* file ever have the same id.
C2_UniqueIds ==
  \A i, j \in DOMAIN FileProducts :
    i # j => FileProducts[i].id # FileProducts[j].id

\* C3: with requests executed one after another, an id returned by a create is
\* never returned again by a later create.
C3_IdsNeverReused ==
  \A i, j \in DOMAIN assigned : i < j => assigned[i].id # assigned[j].id

\* C4: with requests executed one after another, a valid create is answered 201
\* (500 only when a file-system step failed) with id max(ids loaded, 0) + 1 and
\* the file then holds the loaded collection plus the new product; the ids
\* returned by creates that follow one another are strictly increasing.
C4_SequentialCreateIds ==
  /\ \A r \in Slots :
       (req[r].kind = "post" /\ req[r].pc = "done" /\ req[r].errors = <<>>) =>
         /\ req[r].status \in {201, 500}
         /\ faults = 0 => req[r].status = 201
         /\ req[r].status = 201 =>
              /\ req[r].result[1].id = Num(MaxOf(IdsOf(req[r].loaded)) + 1)
              /\ req[r].result[1].id \notin IdsOf(req[r].loaded)
              /\ FileProducts = Append(req[r].loaded, req[r].result[1])
  /\ \A i, j \in DOMAIN streak : i < j => streak[i].n < streak[j].n
  /\ streak # <<>> /\ initial.data = <<>> /\ Len(assigned) = Len(streak)
       => streak[1] = Num(1)

\* three creates in a row were answered with ids 1, 2, 3
C4_Witness == streak = <<Num(1), Num(2), Num(3)>>

\* a path parameter that denotes a positive integer
PositiveId(param) == IsInteger(NumberOf(param)) /\ NumberOf(param).n > 0

\* C5 as stated: every PUT whose body has the key id is answered 400 'Invalid
\* input' with the error 'Unknown field: id' and touches no file; a successful
\* PUT on id k leaves every id of the collection as it was.
C5_PutWithIdIsInvalidInput ==
  \A r \in Slots :
    /\ (req[r].kind = "put" /\ In("id", req[r].body)) =>
         /\ req[r].pc = "done" /\ req[r].status = 400
         /\ req[r].message = "Invalid input"
         /\ \E i \in DOMAIN req[r].errors : req[r].errors[i] = "Unknown field: id"
         /\ req[r].ops = 0
    /\ (req[r].kind = "put" /\ req[r].status = 200) =>
         /\ req[r].result[1].id = NumberOf(req[r].param)
         /\ Len(req[r].products) = Len(req[r].loaded)
         /\ \A i \in DOMAIN req[r].loaded : req[r].products[i].id = req[r].loaded[i].id

\* C5 as amended: a PUT whose body has the key id is answered 400 without a
\* read or a write of a file: 'Invalid input' with the error 'Unknown field: id'
\* when the path id is a positive integer, 'Invalid id' when it is not; a
\* successful PUT on id k leaves every id of the collection as it was.
C5_IdImmutable ==
  \A r \in Slots :
    /\ (req[r].kind = "put" /\ In("id", req[r].body)) =>
         /\ req[r].pc = "done" /\ req[r].status = 400
         /\ req[r].rd = NoRead /\ req[r].ops = 0
         /\ IF PositiveId(req[r].param)
              THEN /\ req[r].message = "Invalid input"
                   /\ \E i \in DOMAIN req[r].errors :
                        req[r].errors[i] = "Unknown field: id"
              ELSE req[r].message = "Invalid id"
    /\ (req[r].kind = "put" /\ req[r].status = 200) =>
         /\ req[r].result[1].id = NumberOf(req[r].param)
         /\ Len(req[r].products) = Len(req[r].loaded)
         /\ \A i \in DOMAIN req[r].loaded : req[r].products[i].id = req[r].loaded[i].id

\* a PUT /products/1 with body {id: 2} was rejected while product 1 is stored
C5_Witness ==
  \E r \in Slots :
    /\ req[r].kind = "put" /\ req[r].param = "1" /\ req[r].body = OnlyId
    /\ req[r].status = 400 /\ req[r].message = "Invalid input"
    /\ Num(1) \in IdsOf(FileProducts)

\* C6: two creates that loaded the same collection and were both answered 201
\* were given the same id, and when they are the only requests the data file
\* then holds the loaded collection plus the product of the one answered last.
C6_LostUpdate ==
  \A r1, r2 \in Slots :
    ( /\ r1 # r2
      /\ req[r1].kind = "post" /\ req[r1].status = 201
      /\ req[r2].kind = "post" /\ req[r2].status = 201
      /\ req[r1].loaded = req[r2].loaded ) =>
      /\ req[r1].result[1].id = req[r2].result[1].id
      /\ nstarted = 2 =>
           FileProducts = Append(req[r1].loaded, assigned[Len(assigned)])

\* both creates were answered 201 with id 1 and only the second product is stored
C6_Witness ==
  \E r1, r2 \in Slots :
    /\ r1 # r2
    /\ req[r1].kind = "post" /\ req[r1].status = 201
    /\ req[r2].kind = "post" /\ req[r2].status = 201
    /\ req[r1].loaded = req[r2].loaded
    /\ req[r1].result[1].id = req[r2].result[1].id
    /\ req[r1].result # req[r2].result
    /\ assigned = <<req[r1].result[1], req[r2].result[1]>>
    /\ FileProducts = <<req[r2].result[1]>>

StoredValue(body, k) ==
  IF k = "name" /\ Get(body, k).t = "string"
    THEN [Get(body, k) EXCEPT !.s =
            SubSeq(@, CHOOSE a \in 1..(Len(@) + 1) :
                        /\ \A j \in 1..(a - 1) : @[j] = " "
                        /\ (a <= Len(@) => @[a] # " "),
                      CHOOSE z \in 0..Len(@) :
                        /\ \A j \in (z + 1)..Len(@) : @[j] = " "
                        /\ (z >= 1 => @[z] # " "))]
    ELSE Get(body, k)

NameFails(body) ==
  \/ ~In("name", body)
  \/ Get(body, "name").t # "string"
  \/ \A j \in DOMAIN Get(body, "name").s : Get(body, "name").s[j] = " "

PriceFails(body) ==
  \/ ~In("price", body)
  \/ Get(body, "price").t # "number"
  \/ Get(body, "price").q \notin {"int", "frac"}
  \/ Get(body, "price").n < 0

InStockFails(body) ==
  \/ ~In("inStock", body)
  \/ Get(body, "inStock").t # "boolean"

FieldMessages ==
  << "name must be a non-empty string", "price must be a non-negative number",
     "inStock must be a boolean" >>

FooErrors == <<"Unknown field: foo">> \o FieldMessages

\* C10: for every body of a create, the errors are one 'Unknown field: <key>'
\* per key outside {name, price, inStock} in key order, then at most one error
\* each for name, price and inStock in that order, each present exactly when the
\* field is missing or fails its rule; {foo:1} yields 4 errors; and with any
\* error the create is answered 400 without a read or a write of a file.
C10_FullValidation ==
  \A r \in Slots :
    req[r].kind = "post" =>
      LET body == req[r].body
          errs == req[r].errors
          unknown == SelectSeq(Keys(body),
                               LAMBDA k : k \notin {"name", "price", "inStock"})
          rest == SubSeq(errs, Len(unknown) + 1, Len(errs))
          fails == <<NameFails(body), PriceFails(body), InStockFails(body)>>
          failing == SelectSeq(<<1, 2, 3>>, LAMBDA i : fails[i])
      IN /\ Len(errs) = Len(unknown) + Len(failing)
         /\ \A i \in DOMAIN unknown : errs[i] = "Unknown field: " \o unknown[i]
         /\ \A i \in DOMAIN failing : rest[i] = FieldMessages[failing[i]]
         /\ body = OnlyFoo => errs = FooErrors
         /\ errs # <<>> =>
              /\ req[r].pc = "done" /\ req[r].status = 400
              /\ req[r].message = "Invalid input"
              /\ req[r].rd = NoRead /\ req[r].ops = 0
         /\ errs = <<>> => req[r].status # 400

\* the create with body {foo:1} was answered 400 with its 4 errors
C10_Witness ==
  \E r \in Slots :
    /\ req[r].kind = "post" /\ req[r].body = OnlyFoo
    /\ Len(req[r].errors) = 4 /\ req[r].status = 400
    /\ dir = [data |-> 0, tmp |-> 0]

\* C11: for every body of an update, the errors are one 'Unknown field: <key>'
\* per key outside {name, price, inStock} in key order, then an error for each
\* of name, price, inStock exactly when the key is in the body and its value
\* fails the rule of full mode; a key that is absent gives no error, and for a
\* body with all three keys the errors are those of full mode.
C11_PartialValidation ==
  \A r \in Slots :
    (req[r].kind = "put" /\ PositiveId(req[r].param)) =>
      LET body == req[r].body
          errs == req[r].errors
          unknown == SelectSeq(Keys(body),
                               LAMBDA k : k \notin {"name", "price", "inStock"})
          rest == SubSeq(errs, Len(unknown) + 1, Len(errs))
          fails == <<NameFails(body), PriceFails(body), InStockFails(body)>>
          present == <<In("name", body), In("price", body), In("inStock", body)>>
          failing == SelectSeq(<<1, 2, 3>>, LAMBDA i : present[i] /\ fails[i])
          full == SelectSeq(<<1, 2, 3>>, LAMBDA i : fails[i])
      IN /\ Len(errs) = Len(unknown) + Len(failing)
         /\ \A i \in DOMAIN unknown : errs[i] = "Unknown field: " \o unknown[i]
         /\ \A i \in DOMAIN failing : rest[i] = FieldMessages[failing[i]]
         /\ \A i \in 1..3 : ~present[i] =>
              \A j \in DOMAIN errs : errs[j] # FieldMessages[i]
         /\ (\A i \in 1..3 : present[i]) =>
              /\ failing = full
              /\ errs = validateProductInput(body, FALSE)
         /\ (errs # <<>>) = (req[r].status = 400)

\* an update with body {price: -1, name: 'A'} got the price error alone, and
\* one with only the unknown key foo got no field error
C11_Witness ==
  \E r \in Slots :
    /\ req[r].kind = "put" /\ req[r].status = 400
    /\ req[r].body = <<KV("price", Num(-1)), KV("name", Str(<<"A">>))>>
    /\ req[r].errors = <<"price must be a non-negative number">>

\* what fs.readFile(DATA_FILE) would give now
DataContent == ReadFile(dir, inode)

\* C12: with requests executed one after another, while writeProducts opens
\* and writes the temporary file the data file keeps its content; when the open
\* or a write fails there is no rename (both names keep their files), the
\* handler answers 500 with its failure message and the data file is as before;
\* when the rename fails after a complete write the handler answers 500, the
\* data file is as before and the temporary file stays, holding the whole json.
C12_FailedWriteKeepsFile ==
  [][ \A r \in Slots :
        /\ req[r].pc \in {"open", "write"} =>
             /\ DataContent' = DataContent
             /\ dir'.data = dir.data
             /\ req'[r].pc = "done" =>
                  /\ req'[r].status = 500
                  /\ req'[r].message = FailureMessage(req[r].kind)
                  /\ dir' = dir
                  /\ req'[r].ops = req[r].ops
        /\ (req[r].pc = "rename" /\ req'[r].pc = "done" /\ req'[r].status = 500) =>
             /\ DataContent' = DataContent
             /\ req'[r].message = FailureMessage(req[r].kind)
             /\ dir' = dir /\ dir.tmp # 0
             /\ inode'[dir.tmp] = Stringify(req[r].products)
        /\ (req[r].pc = "rename" /\ req'[r].pc = "done") =>
             req'[r].status \in {200, 201, 500}
    ]_vars

\* a create on a file holding one product was answered 500 after a write of a
\* part of its json failed; the data file still holds that one product
C12_Witness ==
  \E r \in Slots :
    /\ req[r].kind = "post" /\ req[r].status = 500
    /\ req[r].off > 0 /\ req[r].off < Len(Stringify(req[r].products))
    /\ Len(req[r].loaded) = 1
    /\ FileProducts = req[r].loaded
    /\ dir.tmp # 0 /\ Len(inode[dir.tmp]) = req[r].off

\* C13: a readProducts that finds no file, or a file that is empty or white
\* space, or that is not JSON, or whose JSON is no array, resolves to the empty
\* collection; one that finds an array resolves to it; and a request whose read
\* fails otherwise is answered 500 with its failure message without a write.
C13_LoadNormalisation ==
  \A r \in Slots :
    /\ req[r].rd.err = "ENOENT" => req[r].loaded = <<>>
    /\ ( /\ req[r].rd.err = ""
         /\ req[r].rd.data \in EmptyFiles \cup InvalidFiles \cup ValueFiles ) =>
         req[r].loaded = <<>>
    /\ \A c \in Collections :
         ( /\ req[r].rd.err = ""
           /\ req[r].rd.data \in {Stringify(c), <<Ws>> \o Stringify(c) \o <<Ws>>} ) =>
           req[r].loaded = c
    /\ (req[r].rd.err \in {"", "ENOENT"} /\ req[r].kind \in {"list", "instock"}) =>
         req[r].status = 200
    /\ req[r].rd.err \notin {"", "ENOENT", "none"} =>
         /\ req[r].pc = "done" /\ req[r].status = 500
         /\ req[r].message = FailureMessage(req[r].kind)
         /\ req[r].ops = 0

\* a list of a file holding a JSON object (no array) was answered with the
\* empty collection
C13_Witness ==
  \E r \in Slots :
    /\ req[r].kind = "list" /\ req[r].status = 200
    /\ req[r].rd = [err |-> "", data |-> <<Obj(Stocked)>>]
    /\ req[r].result = <<>>

\* a create, update or delete whose writeProducts resolved
Saved(q) ==
  /\ q.pc = "done" /\ q.kind \in {"post", "put", "delete"}
  /\ q.status \in {200, 201}

\* C14: with requests executed one after another, once writeProducts(c) has
\* resolved the data file reads back as c (same records, same values, same
\* order), it still does when the next request begins, and a readProducts that
\* reads the file resolves to what the file read back as before it.
C14_RoundTrip ==
  [][ \A r \in Slots :
        /\ Saved(req[r]) => FileProducts = req[r].products
        /\ (Saved(req[r]) /\ req'[r].pc = "read") => FileProducts' = req[r].products
        /\ (req[r].pc = "read" /\ req'[r].rd.err \in {"", "ENOENT"}) =>
             req'[r].loaded = FileProducts
    ]_vars

\* a list read back the collection an update of the price of product 1 saved
C14_Witness ==
  \E r \in Slots :
    /\ req[r].kind = "list" /\ req[r].status = 200
    /\ req[r].loaded =
         <<Unstocked, [Stocked EXCEPT !.price = Num(7)], StockedOne, Twin>>
    /\ initial.data = Stringify(<<Unstocked, Stocked, StockedOne, Twin>>)

\* the positions of the records of a collection whose inStock is the boolean true
StockedAt(products) ==
  {i \in DOMAIN products :
     /\ products[i] # Null
     /\ products[i].inStock.t = "boolean" /\ products[i].inStock.b}

\* C15: GET /products/instock answers with the records of the loaded
\* collection whose inStock is the boolean true, in stored order and no others
\* (inStock 1 or 'yes' does not count), and it opens, writes and renames no file.
C15_FilterInStock ==
  \A r \in Slots :
    (req[r].kind = "instock" /\ req[r].status = 200) =>
      LET at == StockedAt(req[r].loaded)
      IN /\ Len(req[r].result) = Cardinality(at)
         /\ \A i \in at :
              req[r].result[Cardinality({k \in at : k <= i})] = req[r].loaded[i]
         /\ req[r].ops = 0

\* of four records with inStock true, 1, 'yes' and false the first was returned
C15_Witness ==
  \E r \in Slots :
    /\ req[r].kind = "instock" /\ req[r].status = 200
    /\ req[r].loaded = <<Stocked, StockedOne, StockedYes, Unstocked>>
    /\ req[r].result = <<Stocked>>

\* C16: when a create, update or delete that called writeProducts is answered
\* 500, the data file does not hold the collection it tried to save, unless the
\* file held it at the start or another request saved that same collection.
C16_FailedRequestLeavesFile ==
  \A r \in Slots :
    ( /\ req[r].pc = "done" /\ req[r].status = 500
      /\ req[r].kind \in {"post", "put", "delete"}
      /\ req[r].ops > 0
      /\ initial.data # Stringify(req[r].products)
      /\ \A q \in Slots \ {r} : req[q].products # req[r].products ) =>
      DataContent.data # Stringify(req[r].products)

\* C17: at the moment a create is answered 201 with record r, the collection
\* in the data file contains r.
C17_CreatedIsPersisted ==
  [][ \A r \in Slots :
        (req[r].kind = "post" /\ req[r].pc # "done" /\ req'[r].status = 201) =>
          \E i \in DOMAIN FileProducts' : FileProducts'[i] = req'[r].result[1]
    ]_vars

\* the positions of the records of a collection whose id is not k
KeptAt(products, k) ==
  {i \in DOMAIN products : products[i] # Null /\ products[i].id # k}

\* C18: with requests executed one after another, a DELETE whose read
\* succeeded is answered 404 exactly when every element of the loaded
\* collection is a record of another id; otherwise it saves the records of the
\* loaded collection whose id is not the one given, each unchanged and in the
\* same relative order, and is answered 200 'Product deleted successfully'
\* with the data file then holding that collection.
C18_DeleteExactlyTarget ==
  \A r \in Slots :
    ( /\ req[r].kind = "delete" /\ req[r].pc = "done"
      /\ PositiveId(req[r].param)
      /\ req[r].rd.err \in {"", "ENOENT"} ) =>
      LET k == NumberOf(req[r].param)
          at == KeptAt(req[r].loaded, k)
      IN /\ (req[r].status = 404) = (Cardinality(at) = Len(req[r].loaded))
         /\ req[r].status \in {200, 404}
         /\ req[r].status = 404 => req[r].message = "Product not found"
         /\ req[r].status = 200 =>
              /\ req[r].message = "Product deleted successfully"
              /\ Len(req[r].products) = Cardinality(at)
              /\ \A i \in at :
                   req[r].products[Cardinality({j \in at : j <= i})] = req[r].loaded[i]
              /\ \A i \in DOMAIN req[r].products :
                   req[r].products[i] # Null /\ req[r].products[i].id # k
              /\ FileProducts = req[r].products

\* DELETE /products/1 on a file with two records of id 1 left the other two
C18_Witness ==
  \E r \in Slots :
    /\ req[r].kind = "delete" /\ req[r].status = 200 /\ req[r].param = "1"
    /\ req[r].loaded = <<Unstocked, Stocked, StockedOne, Twin>>
    /\ FileProducts = <<Unstocked, StockedOne>>

\* a body that fails the rules of an update, as section 4.2 states them
InvalidPartial(body) ==
  \/ \E i \in DOMAIN body : body[i].k \notin {"name", "price", "inStock"}
  \/ In("name", body) /\ NameFails(body)
  \/ In("price", body) /\ PriceFails(body)
  \/ In("inStock", body) /\ InStockFails(body)

\* C19: a PUT whose path id is not a positive integer is answered 400
\* 'Invalid id' whatever its body; one with a positive integer id and an
\* invalid body is answered 400 'Invalid input' whether or not the id is
\* stored; in both cases no file is read or written; the store is loaded, and
\* 404 answered, only for a positive integer id with a valid body.
C19_UpdateCheckOrder ==
  \A r \in Slots :
    req[r].kind = "put" =>
      /\ ~PositiveId(req[r].param) =>
           /\ req[r].pc = "done" /\ req[r].status = 400
           /\ req[r].message = "Invalid id" /\ req[r].errors = <<>>
      /\ (PositiveId(req[r].param) /\ InvalidPartial(req[r].body)) =>
           /\ req[r].pc = "done" /\ req[r].status = 400
           /\ req[r].message = "Invalid input" /\ req[r].errors # <<>>
      /\ req[r].status = 400 => req[r].rd = NoRead /\ req[r].ops = 0
      /\ (req[r].rd # NoRead \/ req[r].status = 404) =>
           PositiveId(req[r].param) /\ ~InvalidPartial(req[r].body)
      /\ (PositiveId(req[r].param) /\ ~InvalidPartial(req[r].body)) =>
           req[r].status # 400

\* PUT /products/3 with body {price: -1} was answered 400 'Invalid input'
\* while the data file holds only product 1
C19_Witness ==
  \E r \in Slots :
    /\ req[r].kind = "put" /\ req[r].param = "3"
    /\ req[r].body = <<KV("price", Num(-1))>>
    /\ req[r].status = 400 /\ req[r].message = "Invalid input"
    /\ FileProducts = <<Stocked>>

\* handler r has been invoked and has not responded
Pending(r) == req[r].pc \notin {"idle", "done"}

\* C20: when every file-system operation that was started completes, every
\* handler that was invoked responds (the requests of a behaviour being finitely
\* many, from some moment on none is pending); a handler has sent no response
\* before (status 0) and one response of status 200, 201, 400, 404 or 500
\* after, which nothing changes or repeats: after a failure there is no
\* further file operation.
C20_AnsweredOnce ==
  /\ <>[](\A r \in Slots : ~Pending(r))
  /\ [](\A r \in Slots :
          /\ Pending(r) => req[r].status = 0
          /\ req[r].pc = "done" => req[r].status \in {200, 201, 400, 404, 500})
  /\ [][ \A r \in Slots :
           /\ (req[r].pc = "done" /\ nstarted' = nstarted) => req'[r] = req[r]
           /\ (Pending(r) /\ faults' # faults /\ req'[r] # req[r]) =>
                /\ req'[r].pc = "done" /\ req'[r].status = 500
                /\ req'[r].ops = req[r].ops
      ]_vars

\* two overlapping requests were answered, one 201 and one 500
C20_Witness ==
  \E r1, r2 \in Slots :
    /\ req[r1].pc = "done" /\ req[r1].status = 201
    /\ req[r2].pc = "done" /\ req[r2].status = 500 /\ req[r2].ops > 0
    /\ faults = 0

====
